---- MODULE Spec2Model ----
(***************************************************************************)
(* Model of mlcpp: the Dataset (train_test_split, normalize, standardize)  *)
(* and the KNN classifier (fit, predict, score, find_k_nearest,            *)
(* majority_vote) with the distance metrics of Distance.h.                 *)
(*                                                                         *)
(* A C++ double is modelled exactly as a number (n/d)*sqrt(r), written     *)
(* <<n, d, r>> with d > 0, gcd(|n|, d) = 1 and r square-free; NaN is a     *)
(* separate value.  Sums, quotients and square roots are then exact, so    *)
(* what is checked is the arithmetic the code writes down, without the     *)
(* rounding of the last bit.  Sequences are 1-based: C++ index i is i + 1. *)
(***************************************************************************)
EXTENDS Integers, Sequences, FiniteSets, Bags, TLC

VARIABLES
    dataset,     \* main.cpp: the source Dataset  [features_, labels_]
    train,       \* main.cpp: first table of the pair a split returned
    test,        \* main.cpp: second table of the pair a split returned
    model,       \* the KNN object  [k_, distance_, X_train_, y_train_]
    ret,         \* what the last call did: its name, arguments and outcome
    last_split,  \* history: the last train_test_split call that returned
    last_fit     \* history: the table the last fit call was given

vars == <<dataset, train, test, model, ret, last_split, last_fit>>

(***************************************************************************)
(* Bounds of the model.                                                    *)
(***************************************************************************)
MaxRows == 3        \* rows of the source table
RatioDen == 4       \* test_ratio ranges over the doubles j / RatioDen
MaxTrain == 3       \* rows of a table given to fit
MaxTest == 2        \* rows of a table given to score
MaxBatch == 2       \* queries of a batch given to predict
MaxK == 3           \* largest k a classifier is constructed with

(***************************************************************************)
(* Exact numbers.                                                          *)
(***************************************************************************)
NaN == <<0, 0, 1>>
Zero == <<0, 1, 1>>
Q(i) == <<i, 1, 1>>

IsNaN(a) == a[2] = 0

AbsInt(i) == IF i < 0 THEN -i ELSE i

RECURSIVE GCD(_, _)
GCD(a, b) == IF b = 0 THEN a ELSE GCD(b, a % b)

\* the largest s with s*s dividing r (r >= 1)
SquarePart(r) ==
    IF r < 4 THEN 1
    ELSE LET squares == {s \in 1..(r \div 2) : s <= r \div s /\ r % (s * s) = 0}
         IN  CHOOSE s \in squares : \A t \in squares : t <= s

\* (n/d)*sqrt(r) in normal form, for d > 0 and r >= 1
Norm(n, d, r) ==
    IF n = 0 THEN Zero
    ELSE LET s == SquarePart(r)
             m == n * s
             g == GCD(AbsInt(m), d)
         IN  <<m \div g, d \div g, r \div (s * s)>>

Neg(a) == IF IsNaN(a) THEN NaN ELSE <<-a[1], a[2], a[3]>>

\* a + b; the two share their radical wherever the code adds
Add(a, b) ==
    CASE IsNaN(a) \/ IsNaN(b) -> NaN
      [] a[1] = 0 -> b
      [] b[1] = 0 -> a
      [] a[3] = b[3] ->
            LET g == GCD(a[2], b[2])
            IN  Norm(a[1] * (b[2] \div g) + b[1] * (a[2] \div g),
                     a[2] * (b[2] \div g), a[3])

Sub(a, b) == Add(a, Neg(b))

Mul(a, b) ==
    IF IsNaN(a) \/ IsNaN(b) THEN NaN
    ELSE Norm(a[1] * b[1], a[2] * b[2], a[3] * b[3])

\* a / b; 0.0 / 0.0 is NaN (the only division by zero the code performs)
Div(a, b) ==
    CASE IsNaN(a) \/ IsNaN(b) -> NaN
      [] b[1] = 0 /\ a[1] = 0 -> NaN
      [] b[1] > 0 -> Norm(a[1] * b[2], a[2] * b[1] * b[3], a[3] * b[3])
      [] b[1] < 0 -> Norm(-(a[1] * b[2]), a[2] * (-b[1]) * b[3], a[3] * b[3])

Sign(a) == IF a[1] > 0 THEN 1 ELSE IF a[1] < 0 THEN -1 ELSE 0

\* a^2 as the pair <<numerator, denominator>>
SquareOf(a) == <<a[1] * a[1] * a[3], a[2] * a[2]>>

\* a < b as doubles compare: false when either is NaN
Less(a, b) ==
    /\ ~IsNaN(a)
    /\ ~IsNaN(b)
    /\ LET sa == Sign(a)
           sb == Sign(b)
           qa == SquareOf(a)
           qb == SquareOf(b)
       IN  IF sa # sb THEN sa < sb
           ELSE IF sa = 0 THEN FALSE
           ELSE IF a[3] = b[3] THEN a[1] * b[2] < b[1] * a[2]
           ELSE IF sa > 0 THEN qa[1] * qb[2] < qb[1] * qa[2]
           ELSE qb[1] * qa[2] < qa[1] * qb[2]

Greater(a, b) == Less(b, a)

\* sqrt(a), for a rational a >= 0 or NaN
Sqrt(a) ==
    CASE IsNaN(a) -> NaN
      [] a[1] = 0 -> Zero
      [] a[3] = 1 /\ a[1] > 0 -> Norm(1, a[2], a[1] * a[2])

\* abs(a)
Fabs(a) == IF IsNaN(a) THEN NaN ELSE <<AbsInt(a[1]), a[2], a[3]>>

(***************************************************************************)
(* Dataset.                                                                *)
(***************************************************************************)
\* Dataset::Dataset(features, labels)
Dataset(features, labels) == [features_ |-> features, labels_ |-> labels]

\* Dataset() = default
EmptyDataset == Dataset(<<>>, <<>>)

\* Dataset::size
size(D) == Len(D.features_)

\* Dataset::num_features
num_features(D) == IF D.features_ = <<>> THEN 0 ELSE Len(D.features_[1])


\* std::mt19937 generator(seed): the generator is a local of each call and its
\* stream is a function of the seed alone.  The library's generator is stood
\* in for by a 16-bit linear congruential generator.
mt19937(seed) == seed % 65536

\* the generator's state after one more draw
generator_advance(g) == (g * 25173 + 13849) % 65536

\* a draw in 0 .. bound-1 from state g
generator_draw(g, bound) == (g \div 16) % bound

swap(s, i, j) == [s EXCEPT ![i] = s[j], ![j] = s[i]]

\* std::shuffle(indexes.begin(), indexes.end(), generator): position i is
\* exchanged with a drawn position at or before it, for i = 2 .. n
RECURSIVE shuffle_from(_, _, _)
shuffle_from(indexes, i, g) ==
    IF i > Len(indexes) THEN indexes
    ELSE LET g2 == generator_advance(g)
             j == 1 + generator_draw(g2, i)
         IN  shuffle_from(swap(indexes, i, j), i + 1, g2)

shuffle(indexes, g) == shuffle_from(indexes, 2, g)

\* generator state g after the draws of shuffling n elements
RECURSIVE generator_after(_, _)
generator_after(g, n) ==
    IF n <= 1 THEN g ELSE generator_after(generator_advance(g), n - 1)

\* mutant of shuffled_indexes: the generator is static, seeded by the first
\* call and carried on by the next one
shuffled_indexes_static(total_size, seed) ==
    shuffle([i \in 1..total_size |-> i],
            IF last_split.called
            THEN generator_after(mt19937(last_split.seed), size(last_split.source))
            ELSE mt19937(seed))

\* Dataset.cpp step 3: indexes[i] = i, then shuffled with a generator seeded
\* by seed
shuffled_indexes(total_size, seed) ==
    shuffle([i \in 1..total_size |-> i], mt19937(seed))

\* mutant of ratio_rejected: the bounds 0 and 1 are let through
ratio_rejected_strict(test_ratio) == test_ratio < 0 \/ test_ratio > RatioDen

\* mutant of split_test_size: rounds up
split_test_size_ceil(total_size, test_ratio) ==
    (total_size * test_ratio + RatioDen - 1) \div RatioDen

\* mutant of split_test_range: the loop starts at 0 again
split_test_range_from_zero(train_size, total_size) == 1..(total_size - train_size)

\* the check of step 1; test_ratio is the numerator j of the double j / RatioDen
ratio_rejected(test_ratio) == test_ratio <= 0 \/ test_ratio >= RatioDen

\* static_cast<size_t>(total_size * test_ratio)
split_test_size(total_size, test_ratio) == (total_size * test_ratio) \div RatioDen

\* the rows copied into the train table: positions 0 .. train_size-1 of indexes
split_train_range(train_size, total_size) == 1..train_size

\* the rows copied into the test table: positions train_size .. total_size-1
split_test_range(train_size, total_size) == (train_size + 1)..total_size

\* the table of the rows of D at the positions rng of indexes, in that order
gather(D, indexes, rng) ==
    LET lo == IF rng = {} THEN 1 ELSE CHOOSE i \in rng : \A j \in rng : i <= j
        m  == Cardinality(rng)
    IN  Dataset([i \in 1..m |-> D.features_[indexes[lo + i - 1]]],
                [i \in 1..m |-> D.labels_[indexes[lo + i - 1]]])

\* mutant of train_test_split: shuffles the rows of the table itself and cuts
\* it in two
train_test_split_in_place(D, test_ratio, seed) ==
    IF ratio_rejected(test_ratio)
    THEN [status |-> "invalid_argument", self |-> D]
    ELSE LET total_size == Len(D.features_)
             test_size  == split_test_size(total_size, test_ratio)
             train_size == total_size - test_size
             indexes    == shuffled_indexes(total_size, seed)
         IN  [status |-> "returned",
              self   |-> gather(D, indexes, 1..total_size),
              train  |-> gather(D, indexes, split_train_range(train_size, total_size)),
              test   |-> gather(D, indexes, split_test_range(train_size, total_size))]

\* Dataset::train_test_split: what the call does, as a record
\*   [status, self, train, test]; "invalid_argument" is the throw of step 1,
\*   self is the object after the call (the method is const)
train_test_split(D, test_ratio, seed) ==
    IF ratio_rejected(test_ratio)
    THEN [status |-> "invalid_argument", self |-> D]
    ELSE LET total_size == Len(D.features_)
             test_size  == split_test_size(total_size, test_ratio)
             train_size == total_size - test_size
             indexes    == shuffled_indexes(total_size, seed)
         IN  [status |-> "returned",
              self   |-> D,
              train  |-> gather(D, indexes, split_train_range(train_size, total_size)),
              test   |-> gather(D, indexes, split_test_range(train_size, total_size))]

\* the loop of normalize that finds min_val of a column, from row on
RECURSIVE column_min(_, _, _, _)
column_min(F, col, row, min_val) ==
    IF row > Len(F) THEN min_val
    ELSE column_min(F, col, row + 1,
                    IF Less(F[row][col], min_val) THEN F[row][col] ELSE min_val)

\* the loop of normalize that finds max_val of a column, from row on
RECURSIVE column_max(_, _, _, _)
column_max(F, col, row, max_val) ==
    IF row > Len(F) THEN max_val
    ELSE column_max(F, col, row + 1,
                    IF Greater(F[row][col], max_val) THEN F[row][col] ELSE max_val)

\* mutant of column_range: min_val and max_val start at 0.0
column_range_from_zero(F, col) ==
    LET min_val == column_min(F, col, 1, Zero)
        max_val == column_max(F, col, 1, Zero)
    IN  <<min_val, Sub(max_val, min_val)>>

\* <<min_val, range>> of column col, as steps 1 and 2 of normalize find them
column_range(F, col) ==
    LET min_val == column_min(F, col, 1, F[1][col])
        max_val == column_max(F, col, 1, F[1][col])
    IN  <<min_val, Sub(max_val, min_val)>>

\* the <<min, range>> of the columns col .. nf, in column order
RECURSIVE per_column_range(_, _, _)
per_column_range(F, col, nf) ==
    IF col > nf THEN <<>>
    ELSE <<column_range(F, col)>> \o per_column_range(F, col + 1, nf)

\* mutant of normalized_value: instead of the test of the range, the divisor
\* is kept away from zero by adding 1
normalized_value_smoothed(mr, x) == Div(Sub(x, mr[1]), Add(mr[2], Q(1)))

\* one value of a column after normalize's step 2, mr the column's <<min, range>>
normalized_value(mr, x) ==
    IF Greater(mr[2], Zero) THEN Div(Sub(x, mr[1]), mr[2]) ELSE x

\* mutant of normalize: the two loops are exchanged, each row is rescaled by
\* the minimum and the range of its own values
normalize_by_row(D) ==
    [D EXCEPT !.features_ =
        [row \in 1..Len(D.features_) |->
            LET R == D.features_[row]
                vals == {R[col] : col \in 1..Len(R)}
                min_val == CHOOSE v \in vals : \A w \in vals : ~Less(w, v)
                max_val == CHOOSE v \in vals : \A w \in vals : ~Less(v, w)
            IN  [col \in 1..Len(R) |->
                    normalized_value(<<min_val, Sub(max_val, min_val)>>, R[col])]]]

\* Dataset::normalize
normalize(D) ==
    IF D.features_ = <<>> THEN D
    ELSE LET F  == D.features_
             nf == Len(F[1])
             mr == per_column_range(F, 1, nf)
         IN  [D EXCEPT !.features_ =
                [row \in 1..Len(F) |->
                    [col \in 1..Len(F[row]) |->
                        IF col <= nf THEN normalized_value(mr[col], F[row][col])
                        ELSE F[row][col]]]]

\* the loop of standardize that sums a column
RECURSIVE column_total(_, _, _, _)
column_total(F, col, row, total) ==
    IF row > Len(F) THEN total
    ELSE column_total(F, col, row + 1, Add(total, F[row][col]))

\* the loop of standardize that sums the squared differences from the mean
RECURSIVE column_variance_sum(_, _, _, _, _)
column_variance_sum(F, col, mean, row, variance_sum) ==
    IF row > Len(F) THEN variance_sum
    ELSE LET diff == Sub(F[row][col], mean)
         IN  column_variance_sum(F, col, mean, row + 1,
                                 Add(variance_sum, Mul(diff, diff)))

\* mean of a column: total / num_samples
column_mean(F, col) == Div(column_total(F, col, 1, Zero), Q(Len(F)))

\* the divisor of the variance sum: num_samples - 1
variance_divisor(num_samples) == num_samples - 1

\* std_dev of a column: sqrt(variance_sum / (num_samples - 1))
column_std_dev(F, col) ==
    Sqrt(Div(column_variance_sum(F, col, column_mean(F, col), 1, Zero),
             Q(variance_divisor(Len(F)))))

\* <<mean, std_dev>> of column col, as steps 1 and 2 of standardize find them
column_moments(F, col) == <<column_mean(F, col), column_std_dev(F, col)>>

\* the <<mean, std_dev>> of the columns col .. nf, in column order
RECURSIVE per_column_moments(_, _, _)
per_column_moments(F, col, nf) ==
    IF col > nf THEN <<>>
    ELSE <<column_moments(F, col)>> \o per_column_moments(F, col + 1, nf)

\* one value of a column after standardize's step 3, ms the column's
\* <<mean, std_dev>>
standardized_value(ms, x) ==
    IF Greater(ms[2], Zero) THEN Div(Sub(x, ms[1]), ms[2]) ELSE x

\* Dataset::standardize
standardize(D) ==
    IF D.features_ = <<>> THEN D
    ELSE LET F  == D.features_
             nf == Len(F[1])
             ms == per_column_moments(F, 1, nf)
         IN  [D EXCEPT !.features_ =
                [row \in 1..Len(F) |->
                    [col \in 1..Len(F[row]) |->
                        IF col <= nf THEN standardized_value(ms[col], F[row][col])
                        ELSE F[row][col]]]]

(***************************************************************************)
(* Dataset::standardize with the rounding of double arithmetic.  A double  *)
(* keeps 53 significant bits and every operation rounds its exact result   *)
(* to the nearest such number, ties to even; the model keeps               *)
(* SignificandBits bits and rounds the same way (the exponent is not       *)
(* bounded: nothing here overflows or underflows).                         *)
(***************************************************************************)
SignificandBits == 5

RECURSIVE Pow2(_)
Pow2(k) == IF k = 0 THEN 1 ELSE 2 * Pow2(k - 1)

\* the rational n/d > 0 rounded to SignificandBits significant bits
RECURSIVE round_positive(_, _)
round_positive(n, d) ==
    IF n >= d * Pow2(SignificandBits)
    THEN Mul(Q(2), round_positive(n, 2 * d))
    ELSE IF n < d * Pow2(SignificandBits - 1)
    THEN Div(round_positive(2 * n, d), Q(2))
    ELSE LET m == n \div d
             r == n - m * d
         IN  IF 2 * r > d \/ (2 * r = d /\ m % 2 = 1) THEN Q(m + 1) ELSE Q(m)

\* the double nearest to the exact result a of an operation
fl(a) ==
    CASE IsNaN(a) -> NaN
      [] a[1] = 0 -> Zero
      [] a[1] > 0 -> round_positive(a[1], a[2])
      [] a[1] < 0 -> Neg(round_positive(-a[1], a[2]))

\* the square root of the rational n/d > 0, rounded
RECURSIVE sqrt_positive(_, _)
sqrt_positive(n, d) ==
    IF n >= d * Pow2(2 * SignificandBits)
    THEN Mul(Q(2), sqrt_positive(n, 4 * d))
    ELSE IF n < d * Pow2(2 * SignificandBits - 2)
    THEN Div(sqrt_positive(4 * n, d), Q(2))
    ELSE LET x == n \div d
             m == CHOOSE s \in Pow2(SignificandBits - 1)..(Pow2(SignificandBits) - 1) :
                      s * s <= x /\ x < (s + 1) * (s + 1)
             half == d * (2 * m + 1) * (2 * m + 1)
         IN  IF 4 * n > half \/ (4 * n = half /\ m % 2 = 1) THEN Q(m + 1) ELSE Q(m)

\* sqrt(a) of a double a >= 0 or NaN
fl_sqrt(a) ==
    CASE IsNaN(a) -> NaN
      [] a[1] = 0 -> Zero
      [] a[1] > 0 -> sqrt_positive(a[1], a[2])

\* total += features_[row][col], from row on
RECURSIVE column_total_fl(_, _, _, _)
column_total_fl(F, col, row, total) ==
    IF row > Len(F) THEN total
    ELSE column_total_fl(F, col, row + 1, fl(Add(total, F[row][col])))

\* mean = total / num_samples
column_mean_fl(F, col) == fl(Div(column_total_fl(F, col, 1, Zero), Q(Len(F))))

\* diff = features_[row][col] - mean; variance_sum += diff * diff, from row on
RECURSIVE column_variance_sum_fl(_, _, _, _, _)
column_variance_sum_fl(F, col, mean, row, variance_sum) ==
    IF row > Len(F) THEN variance_sum
    ELSE LET diff == fl(Sub(F[row][col], mean))
         IN  column_variance_sum_fl(F, col, mean, row + 1,
                                    fl(Add(variance_sum, fl(Mul(diff, diff)))))

\* std_dev = sqrt(variance_sum / (num_samples - 1))
column_std_dev_fl(F, col) ==
    fl_sqrt(fl(Div(column_variance_sum_fl(F, col, column_mean_fl(F, col), 1, Zero),
                   Q(variance_divisor(Len(F))))))

\* the <<mean, std_dev>> of the columns col .. nf, in column order
RECURSIVE per_column_moments_fl(_, _, _)
per_column_moments_fl(F, col, nf) ==
    IF col > nf THEN <<>>
    ELSE <<<<column_mean_fl(F, col), column_std_dev_fl(F, col)>>>>
             \o per_column_moments_fl(F, col + 1, nf)

\* (features_[row][col] - mean) / std_dev, when std_dev > 0.0
standardized_value_fl(ms, x) ==
    IF Greater(ms[2], Zero) THEN fl(Div(fl(Sub(x, ms[1])), ms[2])) ELSE x

\* Dataset::standardize, every operation rounded
standardize_fl(D) ==
    IF D.features_ = <<>> THEN D
    ELSE LET F  == D.features_
             nf == Len(F[1])
             ms == per_column_moments_fl(F, 1, nf)
         IN  [D EXCEPT !.features_ =
                [row \in 1..Len(F) |->
                    [col \in 1..Len(F[row]) |->
                        IF col <= nf THEN standardized_value_fl(ms[col], F[row][col])
                        ELSE F[row][col]]]]

(***************************************************************************)
(* The tables of the dataset pipeline (main.cpp steps 1 to 3).             *)
(***************************************************************************)
\* the samples a source table is made of: <<feature row, label>>
DataSamples ==
    { <<<<Q(0), Q(1)>>, 0>>, <<<<Q(2), Q(1)>>, 1>>, <<<<Q(1), Q(4)>>, 0>> }

RECURSIVE SeqsUpTo(_, _)
SeqsUpTo(S, n) ==
    IF n = 0 THEN {<<>>}
    ELSE LET shorter == SeqsUpTo(S, n - 1)
         IN  shorter \cup {Append(q, x) : q \in {p \in shorter : Len(p) = n - 1}, x \in S}

TableOf(samples) ==
    Dataset([i \in 1..Len(samples) |-> samples[i][1]],
            [i \in 1..Len(samples) |-> samples[i][2]])

DataTables == {TableOf(q) : q \in SeqsUpTo(DataSamples, MaxRows)}

DefaultSeed == 41   \* Dataset.h: int seed = 41
MainSeed == 42      \* main.cpp: train_test_split(0.2, 42)
Seeds == {DefaultSeed, MainSeed}
Ratios == 0..RatioDen
Targets == {"dataset", "train", "test"}

NoCall == [op |-> "none"]
NoSplit == [called |-> FALSE]
NoFit == [called |-> FALSE]

\* KNN::KNN(k, distance)
KNN(k, distance) ==
    [k_ |-> k, distance_ |-> distance, X_train_ |-> <<>>, y_train_ |-> <<>>]

InitData ==
    /\ dataset \in DataTables
    /\ train = EmptyDataset
    /\ test = EmptyDataset
    /\ model = KNN(3, "euclidean_distance")
    /\ ret = NoCall
    /\ last_split = NoSplit
    /\ last_fit = NoFit

\* history: the call (D, test_ratio, seed) repeats the call h records
same_call(h, D, test_ratio, seed) ==
    /\ h.called
    /\ h.source = D
    /\ h.test_ratio = test_ratio
    /\ h.seed = seed

\* auto [train, test] = dataset.train_test_split(test_ratio, seed)
Split(test_ratio, seed) ==
    LET r == train_test_split(dataset, test_ratio, seed)
    IN  /\ ret' = [op |-> "train_test_split", test_ratio |-> test_ratio,
                   status |-> r.status]
        /\ dataset' = r.self
        /\ IF r.status = "returned"
           THEN /\ train' = r.train
                /\ test' = r.test
                /\ last_split' = [called |-> TRUE, source |-> dataset,
                                  test_ratio |-> test_ratio, seed |-> seed,
                                  train |-> r.train, test |-> r.test,
                                  repeat |-> same_call(last_split, dataset,
                                                       test_ratio, seed)]
           ELSE UNCHANGED <<train, test, last_split>>
        /\ UNCHANGED <<model, last_fit>>

\* t.normalize() for one of the three tables
Normalize(t) ==
    /\ dataset' = IF t = "dataset" THEN normalize(dataset) ELSE dataset
    /\ train' = IF t = "train" THEN normalize(train) ELSE train
    /\ test' = IF t = "test" THEN normalize(test) ELSE test
    /\ ret' = [op |-> "normalize", target |-> t, status |-> "returned"]
    /\ UNCHANGED <<model, last_split, last_fit>>

\* t.standardize() for one of the three tables
Standardize(t) ==
    /\ dataset' = IF t = "dataset" THEN standardize(dataset) ELSE dataset
    /\ train' = IF t = "train" THEN standardize(train) ELSE train
    /\ test' = IF t = "test" THEN standardize(test) ELSE test
    /\ ret' = [op |-> "standardize", target |-> t, status |-> "returned"]
    /\ UNCHANGED <<model, last_split, last_fit>>

\* the pipeline of main.cpp: split with main's seed, rescale any of the tables
NextData ==
    \/ \E test_ratio \in Ratios : Split(test_ratio, MainSeed)
    \/ \E t \in Targets : Normalize(t)
    \/ \E t \in Targets : Standardize(t)

SpecData == InitData /\ [][NextData]_vars

\* splits with every seed, between rescalings of the source table
NextSplit ==
    \/ \E test_ratio \in Ratios, seed \in Seeds : Split(test_ratio, seed)
    \/ Normalize("dataset")
    \/ Standardize("dataset")

SpecSplit == InitData /\ [][NextSplit]_vars

\* the samples of the tables that are rescaled: as DataSamples, and a row
\* with a negative and a fractional value
RescaleSamples == DataSamples \cup { <<<<Q(-3), <<1, 2, 1>>>>, 1>> }

RescaleTables == {TableOf(q) : q \in SeqsUpTo(RescaleSamples, MaxRows)}

InitRescale ==
    /\ dataset \in RescaleTables
    /\ train = EmptyDataset
    /\ test = EmptyDataset
    /\ model = KNN(3, "euclidean_distance")
    /\ ret = NoCall
    /\ last_split = NoSplit
    /\ last_fit = NoFit

\* rescalings of the source table, in any order (main.cpp step 2)
NextRescale ==
    \/ Normalize("dataset")
    \/ Standardize("dataset")

SpecRescale == InitRescale /\ [][NextRescale]_vars

\* the samples of the tables standardized in rounded arithmetic: the second
\* feature has the same value in every sample
RoundSamples ==
    { <<<<Q(0), Q(11)>>, 0>>, <<<<Q(1), Q(11)>>, 1>>,
      <<<<Q(2), Q(11)>>, 0>>, <<<<Q(4), Q(11)>>, 1>> }

RoundTables == {TableOf(q) : q \in SeqsUpTo(RoundSamples, MaxRows)}

InitRound ==
    /\ dataset \in RoundTables
    /\ train = EmptyDataset
    /\ test = EmptyDataset
    /\ model = KNN(3, "euclidean_distance")
    /\ ret = NoCall
    /\ last_split = NoSplit
    /\ last_fit = NoFit

\* dataset.standardize(), in rounded arithmetic
StandardizeRounded ==
    /\ dataset' = standardize_fl(dataset)
    /\ ret' = [op |-> "standardize", target |-> "dataset", status |-> "returned"]
    /\ UNCHANGED <<train, test, model, last_split, last_fit>>

NextRound == StandardizeRounded

SpecRound == InitRound /\ [][NextRound]_vars

(***************************************************************************)
(* Distance metrics (Distance.h), as the classifier's specifications use   *)
(* them: manhattan and chebyshev on vectors with small integer             *)
(* coordinates only, on which every overload of abs agrees.                *)
(***************************************************************************)
RECURSIVE euclidean_sum(_, _, _, _)
euclidean_sum(a, b, i, sum) ==
    IF i > Len(a) THEN sum
    ELSE LET diff == Sub(a[i], b[i])
         IN  euclidean_sum(a, b, i + 1, Add(sum, Mul(diff, diff)))

euclidean_distance(a, b) == Sqrt(euclidean_sum(a, b, 1, Zero))

RECURSIVE manhattan_sum(_, _, _, _)
manhattan_sum(a, b, i, sum) ==
    IF i > Len(a) THEN sum
    ELSE manhattan_sum(a, b, i + 1, Add(sum, Fabs(Sub(a[i], b[i]))))

manhattan_distance(a, b) == manhattan_sum(a, b, 1, Zero)

RECURSIVE chebyshev_max(_, _, _, _)
chebyshev_max(a, b, i, max_diff) ==
    IF i > Len(a) THEN max_diff
    ELSE LET diff == Fabs(Sub(a[i], b[i]))
         IN  chebyshev_max(a, b, i + 1,
                           IF Greater(diff, max_diff) THEN diff ELSE max_diff)

chebyshev_distance(a, b) == chebyshev_max(a, b, 1, Zero)

Metrics == {"euclidean_distance", "manhattan_distance", "chebyshev_distance"}

\* this->distance_(a, b)
distance_call(distance, a, b) ==
    CASE distance = "euclidean_distance" -> euclidean_distance(a, b)
      [] distance = "manhattan_distance" -> manhattan_distance(a, b)
      [] distance = "chebyshev_distance" -> chebyshev_distance(a, b)

(***************************************************************************)
(* The metrics on any vectors.  Distance.h calls abs unqualified, inside   *)
(* namespace mlcpp and with <cmath> included: which abs that is depends on *)
(* the library's headers.  Where the global namespace holds abs(double)    *)
(* the call takes the absolute value of the double; where it holds only    *)
(* abs(int) of <stdlib.h> (g++ with libstdc++) the difference is converted *)
(* to int first, which is undefined when the truncated value does not fit. *)
(* int is stood in for by the 8-bit range IntMin .. IntMax.                *)
(***************************************************************************)
IntMax == 127
IntMin == -128

AbsOverloads == {"abs(int)", "abs(double)"}

\* a rational double truncated towards zero
truncated(x) == IF x[1] >= 0 THEN x[1] \div x[2] ELSE -((-x[1]) \div x[2])

\* abs(x) for a double x, by overload: the values the call can deliver.
\* Converting a value outside of int is undefined (processors deliver the
\* least int, or the nearest one), and so is abs of the least int.
abs_call(overload, x) ==
    IF overload = "abs(double)" THEN {Fabs(x)}
    ELSE IF ~IsNaN(x) /\ IntMin < truncated(x) /\ truncated(x) <= IntMax
    THEN {Q(AbsInt(truncated(x)))}
    ELSE {Q(IntMin), Q(IntMax)}

\* euclidean_distance on any vectors
euclidean_outcomes(overload, a, b) == {euclidean_distance(a, b)}

\* the loop of manhattan_distance from coordinate i on
RECURSIVE manhattan_sums(_, _, _, _, _)
manhattan_sums(overload, a, b, i, sum) ==
    IF i > Len(a) THEN {sum}
    ELSE UNION {manhattan_sums(overload, a, b, i + 1, Add(sum, d)) :
                    d \in abs_call(overload, Sub(a[i], b[i]))}

manhattan_outcomes(overload, a, b) == manhattan_sums(overload, a, b, 1, Zero)

\* the loop of chebyshev_distance from coordinate i on
RECURSIVE chebyshev_maxima(_, _, _, _, _)
chebyshev_maxima(overload, a, b, i, max_diff) ==
    IF i > Len(a) THEN {max_diff}
    ELSE UNION {chebyshev_maxima(overload, a, b, i + 1,
                                 IF Greater(diff, max_diff) THEN diff ELSE max_diff) :
                    diff \in abs_call(overload, Sub(a[i], b[i]))}

chebyshev_outcomes(overload, a, b) == chebyshev_maxima(overload, a, b, 1, Zero)

\* the exponents p of the model: 1/2, 1 and 2
Half == <<1, 2, 1>>
Exponents == {Half, Q(1), Q(2)}

\* pow(x, p) for p in Exponents
pow(x, p) ==
    CASE p = Q(1) -> x
      [] p = Q(2) -> Mul(x, x)
      [] p = Half -> IF IsNaN(x) \/ Less(x, Zero) THEN NaN ELSE Sqrt(x)

\* the loop of minkowski_distance from coordinate i on
RECURSIVE minkowski_sums(_, _, _, _, _, _)
minkowski_sums(overload, a, b, p, i, sum) ==
    IF i > Len(a) THEN {sum}
    ELSE UNION {minkowski_sums(overload, a, b, p, i + 1, Add(sum, pow(d, p))) :
                    d \in abs_call(overload, Sub(a[i], b[i]))}

\* minkowski_distance(a, b, p): there is no check of p
minkowski_outcomes(overload, a, b, p) ==
    {pow(sum, Div(Q(1), p)) : sum \in minkowski_sums(overload, a, b, p, 1, Zero)}

(***************************************************************************)
(* KNN.                                                                    *)
(***************************************************************************)
\* mutant of fit: the rows are added to the training data already held
fit_keeps_previous(M, D) ==
    [M EXCEPT !.X_train_ = M.X_train_ \o D.features_,
              !.y_train_ = M.y_train_ \o D.labels_]

\* KNN::fit: the object after the call
fit(M, D) == [M EXCEPT !.X_train_ = D.features_, !.y_train_ = D.labels_]

\* operator< of std::pair<double, size_t>
pair_less(p, q) ==
    \/ Less(p[1], q[1])
    \/ ~Less(q[1], p[1]) /\ p[2] < q[2]

\* the first count pairs of distances in ascending order, as
\* partial_sort(begin, begin + count, end) leaves them; rest is the set of
\* positions not yet placed
RECURSIVE partial_sort(_, _, _)
partial_sort(distances, rest, count) ==
    IF count = 0 THEN <<>>
    ELSE LET m == CHOOSE i \in rest :
                      \A j \in rest \ {i} : pair_less(distances[i], distances[j])
         IN  <<distances[m]>> \o partial_sort(distances, rest \ {m}, count - 1)

\* find_k_nearest has defined behaviour: begin + k_ lies within the vector and
\* the loop bound k_ - 1, converted to size_t, does not wrap
find_k_nearest_defined(M) == 1 <= M.k_ /\ M.k_ <= Len(M.X_train_)

\* the bound of the loop that copies the neighbours: i < k_ - 1
neighbours_copied(k) == k - 1

\* KNN::find_k_nearest, when defined: the training indices it returns
find_k_nearest(M, sample) ==
    LET n == Len(M.X_train_)
        distances == [i \in 1..n |->
                         <<distance_call(M.distance_, sample, M.X_train_[i]), i>>]
        sorted == partial_sort(distances, 1..n, M.k_)
    IN  [i \in 1..neighbours_copied(M.k_) |-> sorted[i][2]]

\* an int label converted to the size_t key of label_counts: <<top bit, rest>>,
\* ordered as the unsigned values are
size_t_key(label) == IF label >= 0 THEN <<0, label>> ELSE <<1, label>>

key_less(a, b) == a[1] < b[1] \/ (a[1] = b[1] /\ a[2] < b[2])

\* the loop over label_counts in key order: keys is the set of keys not yet
\* visited
RECURSIVE vote_scan(_, _, _, _)
vote_scan(label_counts, keys, max, best_label) ==
    IF keys = {} THEN best_label
    ELSE LET key == CHOOSE a \in keys : \A b \in keys \ {a} : key_less(a, b)
             count == label_counts[key]
         IN  IF count > max
             THEN vote_scan(label_counts, keys \ {key}, count, key[2])
             ELSE vote_scan(label_counts, keys \ {key}, max, best_label)

\* KNN::majority_vote
majority_vote(M, neighbor_indices) ==
    LET keys == {size_t_key(M.y_train_[neighbor_indices[i]]) :
                     i \in 1..Len(neighbor_indices)}
        label_counts == [key \in keys |->
            Cardinality({i \in 1..Len(neighbor_indices) :
                            size_t_key(M.y_train_[neighbor_indices[i]]) = key})]
    IN  vote_scan(label_counts, keys, 0, 0)

\* values an out-of-bounds read may deliver as a label
GarbageLabels == {0, 1}

Returned(v) == [status |-> "returned", value |-> v]
Crashed == [status |-> "crashed"]

\* the loop bound k_ - 1 of find_k_nearest is negative and converts to a
\* size_t near 2^64: the loop reads distances[i] until a read leaves the
\* process's memory
find_k_nearest_runs_away(M) == M.k_ <= 0

\* KNN::predict(sample): the outcomes the call can have.  Outside the defined
\* range of find_k_nearest the behaviour is undefined: the call crashes or,
\* where its loop ends, returns whatever the out-of-bounds reads deliver.
predict(M, sample) ==
    IF find_k_nearest_defined(M)
    THEN {Returned(majority_vote(M, find_k_nearest(M, sample)))}
    ELSE IF find_k_nearest_runs_away(M) THEN {Crashed}
    ELSE {Crashed} \cup {Returned(g) : g \in GarbageLabels}

\* the functions from 1..m to S, as tuples
RECURSIVE TuplesOf(_, _)
TuplesOf(S, m) ==
    IF m = 0 THEN {<<>>}
    ELSE {Append(q, x) : q \in TuplesOf(S, m - 1), x \in S}

\* mutant of predict_each: each label is put in front of those already there
RECURSIVE predict_each_push_front(_, _, _)
predict_each_push_front(M, samples, i) ==
    IF i > Len(samples) THEN <<>>
    ELSE predict_each_push_front(M, samples, i + 1)
             \o <<majority_vote(M, find_k_nearest(M, samples[i]))>>

\* the labels of a batch, when find_k_nearest is defined
RECURSIVE predict_each(_, _, _)
predict_each(M, samples, i) ==
    IF i > Len(samples) THEN <<>>
    ELSE <<majority_vote(M, find_k_nearest(M, samples[i]))>>
             \o predict_each(M, samples, i + 1)

\* KNN::predict(samples): the outcomes the call can have
predict_batch(M, samples) ==
    IF samples = <<>> \/ find_k_nearest_defined(M)
    THEN {Returned(predict_each(M, samples, 1))}
    ELSE IF find_k_nearest_runs_away(M) THEN {Crashed}
    ELSE {Crashed} \cup {Returned(g) : g \in TuplesOf(GarbageLabels, Len(samples))}

\* step 4 of score: the positions i counted as correct among those where
\* y_train_[i] exists: this->y_train_[i] == y_test[i]
score_correct(M, y_pred, y_test) ==
    Cardinality({i \in 1..Len(y_test) :
                    i <= Len(M.y_train_) /\ M.y_train_[i] = y_test[i]})

\* step 4 of score: the positions at which it reads y_train_ out of bounds
score_out_of_bounds(M, y_test) ==
    {i \in 1..Len(y_test) : i > Len(M.y_train_)}

\* mutant of score: step 2 is left out, an empty table goes on to the division
score_without_step_2(M, T) ==
    LET X_test == T.features_
        y_test == T.labels_
    IN  UNION {
            IF p.status = "crashed" THEN {Crashed}
            ELSE LET correct == score_correct(M, p.value, y_test)
                     oob == Cardinality(score_out_of_bounds(M, y_test))
                 IN  (IF oob > 0 THEN {Crashed} ELSE {})
                     \cup {Returned(Div(Q(correct + j), Q(Len(y_test)))) : j \in 0..oob}
            : p \in predict_batch(M, X_test)}

\* KNN::score(test_dataset): the outcomes the call can have
score(M, T) ==
    LET X_test == T.features_
        y_test == T.labels_
    IN  IF y_test = <<>> \/ X_test = <<>> THEN {Returned(Zero)}
        ELSE UNION {
            IF p.status = "crashed" THEN {Crashed}
            ELSE LET correct == score_correct(M, p.value, y_test)
                     oob == Cardinality(score_out_of_bounds(M, y_test))
                 IN  (IF oob > 0 THEN {Crashed} ELSE {})
                     \cup {Returned(Div(Q(correct + j), Q(Len(y_test)))) : j \in 0..oob}
            : p \in predict_batch(M, X_test)}

\* the capacity of a vector grown by n calls of push_back from empty: the
\* smallest power of two not below n
RECURSIVE capacity_from(_, _)
capacity_from(c, n) == IF c >= n THEN c ELSE capacity_from(2 * c, n)

capacity(n) == IF n = 0 THEN 0 ELSE capacity_from(1, n)

\* partial_sort(begin, begin + k_, end) orders k_ pairs of 16 bytes from begin
\* on.  With k_ beyond the buffer of distances by two pairs or more it orders
\* memory behind the buffer and the allocator's header after it, and a training
\* row of two doubles lying there takes part in the sort.
overrun_reaches_rows(M) ==
    /\ Len(M.X_train_) >= 1
    /\ M.k_ >= capacity(Len(M.X_train_)) + 2

\* the classifier after such a sort for one query: as it was, or with one row
\* overwritten by the pair (distance, index) of the first training row, whose
\* index 0 reads as the double 0.0
overrun_models(M, sample) ==
    {M} \cup
    {[M EXCEPT !.X_train_[i] =
          <<distance_call(M.distance_, sample, M.X_train_[1]), Zero>>] :
        i \in 1..Len(M.X_train_)}

\* the classifier after find_k_nearest has run for the queries of samples and
\* the call has returned; T is the table of the last fit.  Only an overwrite
\* of rows that are still as fit stored them is followed: the next one would
\* need the distance to an overwritten row.
after_find_k_nearest(M, samples, T) ==
    IF overrun_reaches_rows(M) /\ M.X_train_ = T.features_
    THEN {M} \cup UNION {overrun_models(M, samples[i]) : i \in 1..Len(samples)}
    ELSE {M}

(***************************************************************************)
(* The classifier's inputs.                                                *)
(***************************************************************************)
\* training samples: two rows near the origin and one at (10, 10)
KnnSamples ==
    { <<<<Q(0), Q(0)>>, 0>>, <<<<Q(0), Q(2)>>, -1>>, <<<<Q(10), Q(10)>>, 1>> }

\* the sequences of at most n different elements of S
RECURSIVE DistinctSeqsUpTo(_, _)
DistinctSeqsUpTo(S, n) ==
    IF n = 0 THEN {<<>>}
    ELSE LET shorter == DistinctSeqsUpTo(S, n - 1)
             longest == {p \in shorter : Len(p) = n - 1}
         IN  shorter \cup
             UNION {{Append(q, x) : x \in S \ {q[i] : i \in 1..Len(q)}} : q \in longest}

KnnTables == {TableOf(q) : q \in DistinctSeqsUpTo(KnnSamples, MaxTrain)}

\* a query at equal distance from the two rows near the origin, and a query
\* that is the training row (10, 10)
Queries == { <<Q(0), Q(1)>>, <<Q(10), Q(10)>> }

Batches == SeqsUpTo(Queries, MaxBatch)

TestSamples == { <<<<Q(0), Q(0)>>, 0>>, <<<<Q(10), Q(10)>>, 1>> }

TestTables == {TableOf(q) : q \in SeqsUpTo(TestSamples, MaxTest)}

KValues == 0..MaxK

InitKNN ==
    /\ dataset = EmptyDataset
    /\ train = EmptyDataset
    /\ test = EmptyDataset
    /\ \E k \in KValues, distance \in Metrics : model = KNN(k, distance)
    /\ ret = NoCall
    /\ last_split = NoSplit
    /\ last_fit = NoFit

\* model.fit(D)
Fit(D) ==
    /\ model' = fit(model, D)
    /\ ret' = [op |-> "fit", outcome |-> Returned(<<>>)]
    /\ last_fit' = [called |-> TRUE, table |-> D]
    /\ UNCHANGED <<dataset, train, test, last_split>>

\* the table of the last fit call; before any, the classifier holds no rows
last_fit_table == IF last_fit.called THEN last_fit.table ELSE EmptyDataset

\* model.predict(sample), one vector
Predict(sample) ==
    /\ \E o \in predict(model, sample) :
           /\ ret' = [op |-> "predict", sample |-> sample, outcome |-> o]
           /\ model' \in IF o.status = "returned"
                         THEN after_find_k_nearest(model, <<sample>>, last_fit_table)
                         ELSE {model}
    /\ UNCHANGED <<dataset, train, test, last_split, last_fit>>

\* model.predict(samples), a batch
PredictBatch(samples) ==
    /\ \E o \in predict_batch(model, samples) :
           /\ ret' = [op |-> "predict_batch", samples |-> samples, outcome |-> o]
           /\ model' \in IF o.status = "returned"
                         THEN after_find_k_nearest(model, samples, last_fit_table)
                         ELSE {model}
    /\ UNCHANGED <<dataset, train, test, last_split, last_fit>>

\* model.score(T); an empty table returns before any prediction
Score(T) ==
    /\ \E o \in score(model, T) :
           /\ ret' = [op |-> "score", test_dataset |-> T, outcome |-> o]
           /\ model' \in IF o.status = "returned" /\ T.labels_ # <<>>
                         THEN after_find_k_nearest(model, T.features_, last_fit_table)
                         ELSE {model}
    /\ UNCHANGED <<dataset, train, test, last_split, last_fit>>

NextKNN ==
    \/ \E D \in KnnTables : Fit(D)
    \/ \E sample \in Queries : Predict(sample)
    \/ \E samples \in Batches : PredictBatch(samples)
    \/ \E T \in TestTables : Score(T)

SpecKNN == InitKNN /\ [][NextKNN]_vars

(***************************************************************************)
(* Fitting on a table that is rescaled afterwards (main.cpp steps 2 and    *)
(* 4, in either order).                                                    *)
(***************************************************************************)
\* three rows whose columns are 0, 1, 2 and 4, 2, 0: their normalized and
\* standardized values are rational
FitSamples ==
    { <<<<Q(0), Q(4)>>, 0>>, <<<<Q(1), Q(2)>>, 1>>, <<<<Q(2), Q(0)>>, -1>> }

\* the empty table, the tables of one row and the tables of all three rows
FitTables ==
    {TableOf(q) : q \in {p \in DistinctSeqsUpTo(FitSamples, 3) : Len(p) # 2}}

\* a second table to fit on: empty, or one row
OtherTables == {EmptyDataset, TableOf(<< <<<<Q(10), Q(10)>>, 1>> >>)}

\* the metric is the one without abs: rescaled rows have fractions
InitFit ==
    /\ dataset = EmptyDataset
    /\ train \in FitTables
    /\ test \in OtherTables
    /\ \E k \in KValues : model = KNN(k, "euclidean_distance")
    /\ ret = NoCall
    /\ last_split = NoSplit
    /\ last_fit = NoFit

\* fit on train or on test, rescale train, predict
NextFit ==
    \/ Fit(train)
    \/ Fit(test)
    \/ Normalize("train")
    \/ Standardize("train")
    \/ \E sample \in Queries : Predict(sample)

SpecFit == InitFit /\ [][NextFit]_vars

(***************************************************************************)
(* Calls of the metrics.                                                   *)
(***************************************************************************)
\* vectors of two coordinates: small integers, a fraction, and a value whose
\* distance from the others does not fit int
MetricVectors ==
    { <<Q(0), Q(0)>>, <<Q(1), Q(4)>>, <<Q(0), Q(4)>>, <<Half, Q(0)>>,
      <<Q(IntMax + 73), Q(0)>> }

\* vectors whose coordinates differ by 0, 1 or 4: the square roots pow takes
\* for p = 1/2 are rational
SquareVectors == { <<Q(0), Q(0)>>, <<Q(1), Q(4)>>, <<Q(0), Q(4)>>, <<Q(1), Q(0)>> }

\* the two vectors are the rows of the table
InitMetric ==
    /\ \E a, b \in MetricVectors \cup SquareVectors :
           dataset = Dataset(<<a, b>>, <<0, 0>>)
    /\ train = EmptyDataset
    /\ test = EmptyDataset
    /\ model = KNN(3, "euclidean_distance")
    /\ ret = NoCall
    /\ last_split = NoSplit
    /\ last_fit = NoFit

\* the values a call of the metric named distance can deliver
metric_outcomes(overload, distance, a, b) ==
    CASE distance = "euclidean_distance" -> euclidean_outcomes(overload, a, b)
      [] distance = "manhattan_distance" -> manhattan_outcomes(overload, a, b)
      [] distance = "chebyshev_distance" -> chebyshev_outcomes(overload, a, b)

\* the exponents the model can compute minkowski_distance(a, b, p) for
ExponentsFor(a, b) ==
    IF {a, b} \subseteq SquareVectors THEN Exponents ELSE {Q(1), Q(2)}

\* distance(a, b) for one of the three metrics of two arguments, on the rows
\* of the table
Distance(overload, distance) ==
    LET a == dataset.features_[1]
        b == dataset.features_[2]
    IN  /\ \E d \in metric_outcomes(overload, distance, a, b) :
               ret' = [op |-> distance, abs |-> overload, a |-> a, b |-> b,
                       outcome |-> Returned(d)]
        /\ UNCHANGED <<dataset, train, test, model, last_split, last_fit>>

\* minkowski_distance(a, b, p) on the rows of the table
Minkowski(overload, p) ==
    LET a == dataset.features_[1]
        b == dataset.features_[2]
    IN  /\ p \in ExponentsFor(a, b)
        /\ \E d \in minkowski_outcomes(overload, a, b, p) :
               ret' = [op |-> "minkowski_distance", abs |-> overload, a |-> a,
                       b |-> b, p |-> p, outcome |-> Returned(d)]
        /\ UNCHANGED <<dataset, train, test, model, last_split, last_fit>>

NextMetric ==
    \/ \E overload \in AbsOverloads, distance \in Metrics : Distance(overload, distance)
    \/ \E overload \in AbsOverloads, p \in Exponents : Minkowski(overload, p)

SpecMetric == InitMetric /\ [][NextMetric]_vars

(***************************************************************************)
(* Tables built by the public constructor.                                 *)
(***************************************************************************)
MaxBuilt == 2       \* rows of a table given to the constructor

\* Dataset::Dataset(features, labels): the object built
Dataset_Dataset(features, labels) ==
    [features_ |-> features, labels_ |-> labels]

\* feature rows of width 0, 1 and 2
BuiltRows == { <<>>, <<Q(1)>>, <<Q(0), Q(1)>>, <<Q(2), Q(4)>> }

\* the labels 0, 1, 0, ... for m rows
BuiltLabels(m) == [i \in 1..m |-> (i - 1) % 2]

\* the arguments of the constructor for which every later call on the table
\* is defined: no row is narrower than the first (normalize and standardize
\* index every row up to the width of row 0), and there is a label for every
\* row (train_test_split indexes labels_ by row); one label more than rows is
\* among them
BuiltArguments ==
    UNION { { <<features, BuiltLabels(m)>> : m \in Len(features)..(Len(features) + 1) } :
              features \in {F \in SeqsUpTo(BuiltRows, MaxBuilt) :
                               \A row \in 1..Len(F) : Len(F[row]) >= Len(F[1])} }

\* Dataset dataset: the default constructor, then the state of main.cpp's
\* other objects before they are used
InitTable ==
    /\ dataset = EmptyDataset
    /\ train = EmptyDataset
    /\ test = EmptyDataset
    /\ model = KNN(3, "euclidean_distance")
    /\ ret = NoCall
    /\ last_split = NoSplit
    /\ last_fit = NoFit

\* dataset = Dataset(features, labels), the first statement of a program
Construct(features, labels) ==
    /\ ret = NoCall
    /\ dataset' = Dataset_Dataset(features, labels)
    /\ ret' = [op |-> "Dataset", status |-> "returned"]
    /\ UNCHANGED <<train, test, model, last_split, last_fit>>

\* normalize and standardize read features_[row][col] for every row and every
\* col below the width of row 0: the reads stay within the rows
rescale_in_bounds(D) ==
    \A row \in 1..Len(D.features_) : Len(D.features_[row]) >= Len(D.features_[1])

\* the table a call on t acts on
Table(t) ==
    CASE t = "dataset" -> dataset [] t = "train" -> train [] t = "test" -> test

\* the calls on built tables; a rescaling of a split table whose first row is
\* wider than a later one reads past that row and is not followed
NextTable ==
    \/ \E args \in BuiltArguments : Construct(args[1], args[2])
    \/ \E test_ratio \in Ratios : Split(test_ratio, MainSeed)
    \/ \E t \in Targets : rescale_in_bounds(Table(t)) /\ Normalize(t)
    \/ \E t \in Targets : rescale_in_bounds(Table(t)) /\ Standardize(t)

SpecTable == InitTable /\ [][NextTable]_vars

(***************************************************************************)
(* Metrics.                                                                *)
(***************************************************************************)
MaxLabels == 3      \* length of the label sequences given to accuracy

\* the loop of accuracy: the count of positions from i on where the two
\* sequences agree, added to correct
RECURSIVE accuracy_correct(_, _, _, _)
accuracy_correct(y_true, y_pred, i, correct) ==
    IF i > Len(y_true) THEN correct
    ELSE accuracy_correct(y_true, y_pred, i + 1,
                          IF y_true[i] = y_pred[i] THEN correct + 1 ELSE correct)

\* static_cast<double>(total / correct): the division is the one of size_t
\* and the conversion is applied to its quotient
accuracy_quotient(total, correct) == Q(total \div correct)

\* accuracy(y_true, y_pred): the outcomes the call can have.  With correct = 0
\* the integer division is undefined: the process is stopped by the trap of
\* the division instruction, or the division delivers a quotient of 0.
accuracy(y_true, y_pred) ==
    LET total == Len(y_true)
        correct == accuracy_correct(y_true, y_pred, 1, 0)
    IN  IF correct = 0
        THEN {Crashed, Returned(Zero)}
        ELSE {Returned(accuracy_quotient(total, correct))}

AccuracyLabels == {0, 1, 2}

\* the true labels are those of the test table
InitAccuracy ==
    /\ dataset = EmptyDataset
    /\ train = EmptyDataset
    /\ \E y_true \in SeqsUpTo(AccuracyLabels, MaxLabels) :
           test = Dataset([i \in 1..Len(y_true) |-> <<Zero, Zero>>], y_true)
    /\ model = KNN(3, "euclidean_distance")
    /\ ret = NoCall
    /\ last_split = NoSplit
    /\ last_fit = NoFit

\* accuracy(test.get_labels(), y_pred) for predictions of the same length
Accuracy(y_pred) ==
    /\ Len(y_pred) = Len(test.labels_)
    /\ \E o \in accuracy(test.labels_, y_pred) :
           ret' = [op |-> "accuracy", y_true |-> test.labels_, y_pred |-> y_pred,
                   outcome |-> o]
    /\ UNCHANGED <<dataset, train, test, model, last_split, last_fit>>

NextAccuracy == \E y_pred \in SeqsUpTo(AccuracyLabels, MaxLabels) : Accuracy(y_pred)

SpecAccuracy == InitAccuracy /\ [][NextAccuracy]_vars

(***************************************************************************)
(* Properties of train_test_split.                                         *)
(***************************************************************************)
\* the <<feature row, label>> pairs of a table, in row order
Pairs(D) == [i \in 1..size(D) |-> <<D.features_[i], D.labels_[i]>>]

\* the pairs of a sequence as a bag
BagOfSeq(q) ==
    [x \in {q[i] : i \in 1..Len(q)} |-> Cardinality({i \in 1..Len(q) : q[i] = x})]

IndexPermutations(n) ==
    {p \in [1..n -> 1..n] : \A i, j \in 1..n : p[i] = p[j] => i = j}

\* floor(n * j / RatioDen), from its definition
FloorOfShare(n, j) ==
    CHOOSE m \in 0..n : m * RatioDen <= n * j /\ n * j < (m + 1) * RatioDen

\* C6: a split that returned gave two tables whose sizes add up to the
\* source's, whose rows are the source's rows with every row index used
\* exactly once, and whose (feature row, label) pairs together are the
\* multiset of the source's pairs.
C6_SplitIsPartition ==
    last_split.called =>
        LET src == Pairs(last_split.source)
            out == Pairs(last_split.train) \o Pairs(last_split.test)
        IN  /\ size(last_split.train) + size(last_split.test) = size(last_split.source)
            /\ \E p \in IndexPermutations(Len(src)) :
                   out = [i \in 1..Len(src) |-> src[p[i]]]
            /\ BagOfSeq(Pairs(last_split.train)) (+) BagOfSeq(Pairs(last_split.test))
                   = BagOfSeq(src)

\* a split of three rows, two of them the same sample, into two non-empty
\* tables
C6_Witness ==
    /\ last_split.called
    /\ size(last_split.source) = 3
    /\ Cardinality({Pairs(last_split.source)[i] : i \in 1..3}) = 2
    /\ size(last_split.train) >= 1
    /\ size(last_split.test) >= 1

\* C7: a split with a valid ratio returns; the test table has
\* floor(n * test_ratio) rows and the train table the other rows; train is
\* the rows at the first entries of the shuffled permutation, in that order,
\* and test the rows at the remaining entries, in that order (so a floor of 0
\* gives an empty test table).
C7_SplitSizesAndOrder ==
    /\ (ret.op = "train_test_split" /\ 0 < ret.test_ratio /\ ret.test_ratio < RatioDen)
           => ret.status = "returned"
    /\ last_split.called =>
        LET src == last_split.source
            n == size(src)
            test_size == FloorOfShare(n, last_split.test_ratio)
            train_size == n - test_size
            perm == shuffled_indexes(n, last_split.seed)
        IN  /\ size(last_split.test) = test_size
            /\ size(last_split.train) = train_size
            /\ Pairs(last_split.train) = [i \in 1..train_size |-> Pairs(src)[perm[i]]]
            /\ Pairs(last_split.test) =
                   [i \in 1..test_size |-> Pairs(src)[perm[train_size + i]]]

\* three rows and test_ratio 2/4: 1.5 is floored to a test table of one row
C7_Witness ==
    /\ last_split.called
    /\ size(last_split.source) = 3
    /\ 2 * last_split.test_ratio = RatioDen
    /\ size(last_split.test) = 1
    /\ shuffled_indexes(3, last_split.seed) # <<1, 2, 3>>

\* a ratio that floors to no test row at all: the call returns an empty test
\* table
C7_WitnessEmptyTest ==
    /\ ret.op = "train_test_split"
    /\ ret.status = "returned"
    /\ size(last_split.source) >= 1
    /\ size(test) = 0

\* C8: a train_test_split call with test_ratio <= 0 or test_ratio >= 1 throws
\* invalid_argument, hands out no pair of tables and leaves the source table
\* as it was.
C8_BadRatioThrows ==
    [][(ret'.op = "train_test_split"
            /\ (ret'.test_ratio <= 0 \/ ret'.test_ratio >= RatioDen))
        => /\ ret'.status = "invalid_argument"
           /\ dataset' = dataset
           /\ train' = train
           /\ test' = test
           /\ last_split' = last_split]_vars

\* a rejected call on a non-empty table that was split before
C8_Witness ==
    /\ ret.op = "train_test_split"
    /\ ret.status = "invalid_argument"
    /\ ret.test_ratio = RatioDen
    /\ size(dataset) >= 1
    /\ last_split.called

\* C9: a split that repeats the previous split's table, ratio and seed
\* returns the same train table and the same test table, row order included,
\* whatever was called in between.
C9_SameSeedSameSplit ==
    [][(/\ ret'.op = "train_test_split"
        /\ ret'.status = "returned"
        /\ same_call(last_split, dataset, last_split'.test_ratio, last_split'.seed))
        => /\ train' = last_split.train
           /\ test' = last_split.test]_vars

\* a repeated split of three rows into two non-empty tables
C9_Witness ==
    /\ last_split.called
    /\ last_split.repeat
    /\ size(last_split.source) = 3
    /\ size(last_split.test) >= 1
    /\ shuffled_indexes(3, last_split.seed) # <<1, 2, 3>>

\* the table named t after a step, and before it
TableAfter(t) ==
    CASE t = "dataset" -> dataset' [] t = "train" -> train' [] t = "test" -> test'
TableBefore(t) ==
    CASE t = "dataset" -> dataset [] t = "train" -> train [] t = "test" -> test

\* C10: train_test_split leaves the source table as it was, and a normalize or
\* standardize of one of source, train and test leaves the features and the
\* labels of the other two as they were.
C10_SplitCopies ==
    [][/\ ret'.op = "train_test_split" => dataset' = dataset
       /\ ret'.op \in {"normalize", "standardize"} =>
              \A t \in Targets \ {ret'.target} : TableAfter(t) = TableBefore(t)]_vars

\* train was rescaled after a split: it differs from the rows the split
\* returned, while source and test are as the split left them
C10_Witness ==
    /\ ret.op \in {"normalize", "standardize"}
    /\ ret.target = "train"
    /\ last_split.called
    /\ train # last_split.train
    /\ train.labels_ = last_split.train.labels_
    /\ dataset = last_split.source
    /\ test = last_split.test
    /\ size(test) >= 1

(***************************************************************************)
(* Properties of the classifier.                                           *)
(***************************************************************************)
\* the fraction of positions at which two label sequences agree
MatchFraction(y_pred, y_true) ==
    Div(Q(Cardinality({i \in 1..Len(y_true) : y_pred[i] = y_true[i]})),
        Q(Len(y_true)))

\* the set of the k training indices that come first by (distance, index)
FirstByDistance(M, sample, k) ==
    LET n == Len(M.X_train_)
        d == [i \in 1..n |-> <<distance_call(M.distance_, sample, M.X_train_[i]), i>>]
    IN  CHOOSE I \in SUBSET (1..n) :
            /\ Cardinality(I) = k
            /\ \A i \in I, j \in (1..n) \ I : pair_less(d[i], d[j])

\* the labels no other label outnumbers among the training rows I
MostFrequentLabels(M, I) ==
    LET count(l) == Cardinality({i \in I : M.y_train_[i] = l})
    IN  {M.y_train_[i] : i \in I} \ 
            {l \in {M.y_train_[i] : i \in I} :
                \E l2 \in {M.y_train_[i] : i \in I} : count(l2) > count(l)}

\* C1: on a fit classifier with k within the training size, score of a
\* non-empty test table is the fraction of rows whose predicted label is the
\* table's label.  (Stated for test tables no longer than the training set,
\* where every read of score is in bounds.)
C1_ScoreIsPredictAccuracy ==
    (/\ ret.op = "score"
     /\ ret.outcome.status = "returned"
     /\ find_k_nearest_defined(model)
     /\ size(ret.test_dataset) >= 1
     /\ size(ret.test_dataset) <= Len(model.y_train_))
        => ret.outcome.value =
               MatchFraction(predict_each(model, ret.test_dataset.features_, 1),
                             ret.test_dataset.labels_)

\* C2: with 1 <= k <= n, predict returns a most frequent label of the k
\* training rows that come first by (distance to the query, training index).
C2_PredictVotesOverKNearest ==
    (/\ ret.op = "predict"
     /\ ret.outcome.status = "returned"
     /\ find_k_nearest_defined(model))
        => ret.outcome.value \in
               MostFrequentLabels(model, FirstByDistance(model, ret.sample, model.k_))

\* the training set is two clusters: two labels, and rows of one label are
\* closer to each other than to any row of the other label
WellSeparated(M) ==
    LET n == Len(M.X_train_)
        d(i, j) == distance_call(M.distance_, M.X_train_[i], M.X_train_[j])
    IN  /\ Cardinality({M.y_train_[i] : i \in 1..n}) = 2
        /\ \A i, j, a, b \in 1..n :
               (M.y_train_[i] = M.y_train_[j] /\ M.y_train_[a] # M.y_train_[b])
                   => Less(d(i, j), d(a, b))

\* C3: with k = 1 on two well-separated clusters, predict of a query that is
\* a training row returns that row's label.
C3_CoincidentQueryGetsItsLabel ==
    (/\ ret.op = "predict"
     /\ ret.outcome.status = "returned"
     /\ model.k_ = 1
     /\ WellSeparated(model))
        => \A i \in 1..Len(model.X_train_) :
               model.X_train_[i] = ret.sample => ret.outcome.value = model.y_train_[i]

\* C4: with k greater than the (non-zero) number of training rows, a predict
\* call, single or batch, fails with InvalidArgument.
C4_KTooLargeIsInvalidArgument ==
    (/\ ret.op \in {"predict", "predict_batch"}
     /\ Len(model.X_train_) >= 1
     /\ model.k_ > Len(model.X_train_))
        => ret.outcome.status = "invalid_argument"

\* C5: with no training rows (and k >= 1), a predict call, single or batch,
\* fails with InvalidState and returns no label.
C5_UnfitIsInvalidState ==
    (/\ ret.op \in {"predict", "predict_batch"}
     /\ model.k_ >= 1
     /\ Len(model.X_train_) = 0)
        => ret.outcome.status = "invalid_state"

C11_WitnessFewRows ==
    /\ ret.op = "fit"
    /\ last_fit.called
    /\ size(last_fit.table) < model.k_
    /\ model.X_train_ = last_fit.table.features_

(***************************************************************************)
(* Properties of batch predict.                                            *)
(***************************************************************************)
\* C12: with 1 <= k <= n, predict of a batch of m queries returns m labels,
\* and the i-th of them is what predict of the i-th query alone returns,
\* whatever the other queries of the batch are.
C12_BatchIsElementwisePredict ==
    (/\ ret.op = "predict_batch"
     /\ find_k_nearest_defined(model))
        => /\ ret.outcome.status = "returned"
           /\ Len(ret.outcome.value) = Len(ret.samples)
           /\ \A i \in 1..Len(ret.samples) :
                  predict(model, ret.samples[i]) = {Returned(ret.outcome.value[i])}

\* a batch of two different queries that got two different labels
C12_Witness ==
    /\ ret.op = "predict_batch"
    /\ find_k_nearest_defined(model)
    /\ ret.outcome.status = "returned"
    /\ Len(ret.samples) = 2
    /\ ret.samples[1] # ret.samples[2]
    /\ ret.outcome.value[1] # ret.outcome.value[2]

(***************************************************************************)
(* Properties of score.                                                    *)
(***************************************************************************)
\* C13: a score call on an empty test table returns 0.0, raises nothing, and
\* leaves the classifier as it was; this holds for every classifier, fit or
\* not.
C13_ScoreOfEmptyTable ==
    [][(ret'.op = "score" /\ size(ret'.test_dataset) = 0)
        => /\ ret'.outcome = Returned(Zero)
           /\ model' = model]_vars

\* score of the empty table on a classifier that holds training rows
C13_Witness ==
    /\ ret.op = "score"
    /\ ret.test_dataset = EmptyDataset
    /\ ret.outcome = Returned(Zero)
    /\ Len(model.X_train_) >= 1

\* score of the empty table on a classifier that was never fit
C13_WitnessUnfit ==
    /\ ret.op = "score"
    /\ ret.test_dataset = EmptyDataset
    /\ ret.outcome = Returned(Zero)
    /\ ~last_fit.called

(***************************************************************************)
(* Properties of normalize and standardize.                                *)
(***************************************************************************)
\* the values of column col of the rows F
ColumnValues(F, col) == {F[row][col] : row \in 1..Len(F)}

\* the least and the greatest of a non-empty set of numbers
Smallest(S) == CHOOSE v \in S : \A w \in S : ~Less(w, v)
Largest(S) == CHOOSE v \in S : \A w \in S : ~Less(v, w)

\* the number of columns of the rows F
Width(F) == IF F = <<>> THEN 0 ELSE Len(F[1])

\* C14: a normalize call replaces, in every column whose maximum exceeds its
\* minimum, each value x by (x - min) / (max - min), computed from that
\* column's values alone: the new values lie in [0, 1], the minimum becomes 0
\* and the maximum 1; a column whose values are all equal is left as it was.
C14_NormalizeRescalesColumns ==
    [][ret'.op = "normalize" =>
        LET F == TableBefore(ret'.target).features_
            G == TableAfter(ret'.target).features_
        IN  /\ Len(G) = Len(F)
            /\ \A col \in 1..Width(F) :
                   LET mn == Smallest(ColumnValues(F, col))
                       mx == Largest(ColumnValues(F, col))
                   IN  IF Less(mn, mx)
                       THEN \A row \in 1..Len(F) :
                               /\ G[row][col] =
                                      Div(Sub(F[row][col], mn), Sub(mx, mn))
                               /\ ~Less(G[row][col], Zero)
                               /\ ~Less(Q(1), G[row][col])
                               /\ F[row][col] = mn => G[row][col] = Zero
                               /\ F[row][col] = mx => G[row][col] = Q(1)
                       ELSE \A row \in 1..Len(F) : G[row][col] = F[row][col]]_vars

\* the table a normalize call was made on has three rows, a column with the
\* values 0, 1/2 and 1 and a column with the values 0 and 1 only
C14_Witness ==
    /\ ret.op = "normalize"
    /\ ret.target = "dataset"
    /\ size(dataset) = 3
    /\ ColumnValues(dataset.features_, 1) = {Zero, <<1, 2, 1>>, Q(1)}
    /\ ColumnValues(dataset.features_, 2) = {Zero, Q(1)}

\* the table a normalize call was made on has a column of equal values
\* outside [0, 1]
C14_WitnessConstantColumn ==
    /\ ret.op = "normalize"
    /\ ret.target = "dataset"
    /\ size(dataset) >= 2
    /\ ColumnValues(dataset.features_, 2) = {Q(4)}

\* C15: the table a normalize call leaves is a fixed point of normalize:
\* normalizing it once more gives the same table.
C15_NormalizeIdempotent ==
    (ret.op = "normalize" /\ ret.target = "dataset")
        => normalize(dataset) = dataset

\* a normalize call left a table of three rows whose first column is
\* 0, 3/5 and 1 (from -3, 0 and 2) and whose second column was rescaled too
C15_Witness ==
    /\ ret.op = "normalize"
    /\ ret.target = "dataset"
    /\ size(dataset) = 3
    /\ ColumnValues(dataset.features_, 1) = {Zero, <<3, 5, 1>>, Q(1)}
    /\ Cardinality(ColumnValues(dataset.features_, 2)) >= 2

\* the exact sum of the values of column col of the rows 1 .. row of F
RECURSIVE SumOfColumn(_, _, _)
SumOfColumn(F, col, row) ==
    IF row = 0 THEN Zero ELSE Add(SumOfColumn(F, col, row - 1), F[row][col])

\* the exact mean of column col
MeanOf(F, col) == Div(SumOfColumn(F, col, Len(F)), Q(Len(F)))

\* the rows of F with m taken from every value
Centered(F, m) ==
    [row \in 1..Len(F) |-> [col \in 1..Len(F[row]) |-> Sub(F[row][col], m)]]

\* the rows of F with every value squared
Squared(F) ==
    [row \in 1..Len(F) |-> [col \in 1..Len(F[row]) |-> Mul(F[row][col], F[row][col])]]

\* the exact sample variance (divisor n - 1) of column col, for two rows or
\* more
SampleVarianceOf(F, col) ==
    Div(SumOfColumn(Squared(Centered(F, MeanOf(F, col))), col, Len(F)),
        Q(Len(F) - 1))

\* what rounding may add to a mean of 0 or a variance of 1
Tolerance == <<1, 8, 1>>

Near(a, b) == ~Less(Tolerance, Fabs(Sub(a, b)))

\* C16: a standardize call in double arithmetic leaves a column whose
\* values are all equal as it was, and gives a column with different values
\* mean 0 and sample standard deviation (divisor n - 1) 1, up to rounding.
C16_StandardizeRescalesColumns ==
    [][ret'.op = "standardize" =>
        LET F == dataset.features_
            G == dataset'.features_
        IN  /\ Len(G) = Len(F)
            /\ \A col \in 1..Width(F) :
                   IF Cardinality(ColumnValues(F, col)) = 1
                   THEN \A row \in 1..Len(F) : G[row][col] = F[row][col]
                   ELSE /\ Near(MeanOf(G, col), Zero)
                        /\ Near(SampleVarianceOf(G, col), Q(1))]_vars

\* C16, in exact arithmetic: with two rows or more and a sample standard
\* deviation std > 0 (divisor n - 1) every value x of a column becomes
\* (x - mean) / std, and the column then has mean 0 and sample variance 1;
\* otherwise the column is left as it was.
C16_InExactArithmetic ==
    [][ret'.op = "standardize" =>
        LET F == dataset.features_
            G == dataset'.features_
        IN  /\ Len(G) = Len(F)
            /\ \A col \in 1..Width(F) :
                   IF Len(F) >= 2 /\ Cardinality(ColumnValues(F, col)) >= 2
                   THEN LET mean == MeanOf(F, col)
                            std == Sqrt(SampleVarianceOf(F, col))
                        IN  /\ Greater(std, Zero)
                            /\ \A row \in 1..Len(F) :
                                   G[row][col] = Div(Sub(F[row][col], mean), std)
                            /\ MeanOf(G, col) = Zero
                            /\ SampleVarianceOf(G, col) = Q(1)
                   ELSE \A row \in 1..Len(F) : G[row][col] = F[row][col]]_vars

\* in exact arithmetic: a standardize call left three rows whose first
\* column is -1, 0, 1 and whose second column has an irrational value
C16_WitnessExact ==
    /\ ret.op = "standardize"
    /\ size(dataset) = 3
    /\ ColumnValues(dataset.features_, 1) = {Q(-1), Zero, Q(1)}
    /\ \E row \in 1..3 : dataset.features_[row][2][3] # 1

\* C17: a normalize or standardize call returns; it leaves the labels, the
\* number of rows and the width of every row as they were, and the rows in
\* their places: within a column, equal values stay equal and a smaller
\* value stays smaller.  On an empty table it changes nothing.
C17_RescaleKeepsFrame ==
    [][ret'.op \in {"normalize", "standardize"} =>
        LET T == TableBefore(ret'.target)
            U == TableAfter(ret'.target)
            F == T.features_
            G == U.features_
        IN  /\ ret'.status = "returned"
            /\ U.labels_ = T.labels_
            /\ Len(G) = Len(F)
            /\ \A row \in 1..Len(F) : Len(G[row]) = Len(F[row])
            /\ \A col \in 1..Width(F) : \A r1, r2 \in 1..Len(F) :
                   /\ F[r1][col] = F[r2][col] => G[r1][col] = G[r2][col]
                   /\ Less(F[r1][col], F[r2][col]) => Less(G[r1][col], G[r2][col])
            /\ T = EmptyDataset => U = EmptyDataset]_vars

\* a standardize call left three rows with the labels 0, 1, 0 and negative
\* values in both columns
C17_Witness ==
    /\ ret.op = "standardize"
    /\ ret.target = "dataset"
    /\ dataset.labels_ = <<0, 1, 0>>
    /\ \A col \in 1..2 : \E row \in 1..3 : Less(dataset.features_[row][col], Zero)

\* a normalize call on the empty table
C17_WitnessEmpty ==
    /\ ret.op = "normalize"
    /\ ret.target = "dataset"
    /\ dataset = EmptyDataset

(***************************************************************************)
(* Properties of the metrics.                                              *)
(***************************************************************************)
\* a == b and a >= b on doubles: false when either is NaN
Equal(a, b) == ~IsNaN(a) /\ ~IsNaN(b) /\ a = b
AtLeast(a, b) == ~IsNaN(a) /\ ~IsNaN(b) /\ ~Less(a, b)

\* the values a call d(a, b) of the metric of the last call can deliver
SameMetric(a, b) ==
    IF ret.op = "minkowski_distance"
    THEN minkowski_outcomes(ret.abs, a, b, ret.p)
    ELSE metric_outcomes(ret.abs, ret.op, a, b)

\* C18: a call d(a, b) of a provided metric (Minkowski with p >= 1) on
\* vectors of equal length returns a value >= 0, the value d(b, a) returns,
\* and d(a, a) returns 0.
C18_MetricProperties ==
    (/\ ret.op \in Metrics \cup {"minkowski_distance"}
     /\ ret.op = "minkowski_distance" => AtLeast(ret.p, Q(1)))
        => /\ ret.outcome.status = "returned"
           /\ AtLeast(ret.outcome.value, Zero)
           /\ \A d \in SameMetric(ret.b, ret.a) : Equal(d, ret.outcome.value)
           /\ \A d \in SameMetric(ret.a, ret.a) : Equal(d, Zero)

\* C18 where abs is abs(double), or every coordinate difference fits int
C18_WithinInt ==
    (/\ ret.op \in Metrics \cup {"minkowski_distance"}
     /\ ret.op = "minkowski_distance" => AtLeast(ret.p, Q(1))
     /\ \/ ret.abs = "abs(double)"
        \/ ret.op = "euclidean_distance"
        \/ \A i \in 1..Len(ret.a) :
               LET t == truncated(Sub(ret.a[i], ret.b[i]))
               IN  IntMin < t /\ t <= IntMax)
        => /\ ret.outcome.status = "returned"
           /\ AtLeast(ret.outcome.value, Zero)
           /\ \A d \in SameMetric(ret.b, ret.a) : Equal(d, ret.outcome.value)
           /\ \A d \in SameMetric(ret.a, ret.a) : Equal(d, Zero)

\* C19: a call of minkowski_distance with p < 1 is reported as
\* InvalidArgument and returns no distance.
C19_MinkowskiRejectsSmallP ==
    (ret.op = "minkowski_distance" /\ Less(ret.p, Q(1)))
        => ret.outcome.status = "invalid_argument"

(***************************************************************************)
(* The frame of the classifier's operations.                               *)
(***************************************************************************)
\* C20: in every step k and the metric keep their values, a step of predict
\* (single or batch) or score leaves the whole classifier as it was, and the
\* training features and labels change in fit steps only.
C20_ClassifierFrame ==
    [][/\ model'.k_ = model.k_
       /\ model'.distance_ = model.distance_
       /\ ret'.op \in {"predict", "predict_batch", "score"} => model' = model
       /\ (model'.X_train_ # model.X_train_ \/ model'.y_train_ # model.y_train_)
              => ret'.op = "fit"]_vars

\* the part of C20 the code keeps: k, the metric, the labels and the number of
\* rows never change outside fit, and where partial_sort stays within reach of
\* the buffer of distances predict and score leave the classifier as it was
C20_WithinTheBuffer ==
    [][/\ model'.k_ = model.k_
       /\ model'.distance_ = model.distance_
       /\ ret'.op \in {"predict", "predict_batch", "score"} =>
              /\ model'.y_train_ = model.y_train_
              /\ Len(model'.X_train_) = Len(model.X_train_)
              /\ ~overrun_reaches_rows(model) => model' = model]_vars

\* a predict call that returned on a classifier whose stored row is no longer
\* the row of the last fit
C20_WitnessOverwrittenRow ==
    /\ ret.op = "predict"
    /\ ret.outcome.status = "returned"
    /\ last_fit.called
    /\ model.y_train_ = last_fit.table.labels_
    /\ model.X_train_ # last_fit.table.features_

(***************************************************************************)
(* The shape of tables.                                                    *)
(***************************************************************************)
\* a label for every row, all rows of one width, and width 0 only for the
\* empty table
WellFormed(D) ==
    /\ Len(D.labels_) = Len(D.features_)
    /\ \A i, j \in 1..Len(D.features_) : Len(D.features_[i]) = Len(D.features_[j])
    /\ num_features(D) = 0 => size(D) = 0

\* C21: every table built by the constructor, returned by train_test_split
\* or left by normalize and standardize has as many labels as rows, rows of
\* one width, and num_features() = 0 only when it is empty.
C21_TablesWellFormed ==
    /\ WellFormed(dataset)
    /\ WellFormed(train)
    /\ WellFormed(test)

\* the part of C21 the code keeps: train_test_split, normalize and
\* standardize on well-formed tables leave and return well-formed tables
C21_OperationsKeepShape ==
    [][(/\ ret'.op # "Dataset"
        /\ WellFormed(dataset) /\ WellFormed(train) /\ WellFormed(test))
           => (WellFormed(dataset') /\ WellFormed(train') /\ WellFormed(test'))]_vars

(***************************************************************************)
(* Properties of accuracy.                                                 *)
(***************************************************************************)
\* C22: accuracy of two label sequences of one length n >= 1 returns the
\* number of positions at which they agree divided by n, a value from 0 to 1,
\* also when they agree nowhere.
C22_AccuracyIsMatchFraction ==
    (ret.op = "accuracy" /\ Len(ret.y_true) >= 1)
        => /\ ret.outcome.status = "returned"
           /\ ret.outcome.value = MatchFraction(ret.y_pred, ret.y_true)
           /\ ~Less(ret.outcome.value, Zero)
           /\ ~Less(Q(1), ret.outcome.value)

\* what the code returns instead: the whole part of n divided by the number
\* of agreeing positions, when there is one
C22_InvertedQuotient ==
    (/\ ret.op = "accuracy"
     /\ ret.outcome.status = "returned"
     /\ MatchFraction(ret.y_pred, ret.y_true) # Zero
     /\ Len(ret.y_true) >= 1)
        => \E correct \in 1..Len(ret.y_true) :
               /\ MatchFraction(ret.y_pred, ret.y_true) =
                      Div(Q(correct), Q(Len(ret.y_true)))
               /\ ret.outcome.value = Q(Len(ret.y_true) \div correct)

(***************************************************************************)
(* Properties of the vote.                                                 *)
(***************************************************************************)
\* the training indices find_k_nearest hands to majority_vote
Voted(M, sample) ==
    LET neighbor_indices == find_k_nearest(M, sample)
    IN  {neighbor_indices[i] : i \in 1..Len(neighbor_indices)}

LeastLabel(S) == CHOOSE l \in S : \A m \in S : l <= m

\* C23: when predict has voted over at least one neighbour, it returns the
\* numerically smallest of the labels with the highest count among the
\* neighbours voted over, whatever the sign of the labels.
C23_TieGoesToSmallestLabel ==
    (/\ ret.op = "predict"
     /\ ret.outcome.status = "returned"
     /\ find_k_nearest_defined(model)
     /\ neighbours_copied(model.k_) >= 1)
        => ret.outcome.value =
               LeastLabel(MostFrequentLabels(model, Voted(model, ret.sample)))

\* the part of C23 the code keeps: the rule holds when no tied label is
\* negative
C23_TieAmongNonNegativeLabels ==
    (/\ ret.op = "predict"
     /\ ret.outcome.status = "returned"
     /\ find_k_nearest_defined(model)
     /\ neighbours_copied(model.k_) >= 1
     /\ \A l \in MostFrequentLabels(model, Voted(model, ret.sample)) : l >= 0)
        => ret.outcome.value =
               LeastLabel(MostFrequentLabels(model, Voted(model, ret.sample)))

\* a tie of two non-negative labels that went to the smaller one
C23_WitnessNonNegativeTie ==
    /\ ret.op = "predict"
    /\ ret.outcome.status = "returned"
    /\ find_k_nearest_defined(model)
    /\ Cardinality(MostFrequentLabels(model, Voted(model, ret.sample))) = 2
    /\ \A l \in MostFrequentLabels(model, Voted(model, ret.sample)) : l >= 0
    /\ ret.outcome.value =
           LeastLabel(MostFrequentLabels(model, Voted(model, ret.sample)))

(***************************************************************************)
(* The classifier's k.                                                     *)
(***************************************************************************)
\* C24: in every state the classifier's k is a positive integer.
C24_KIsPositive == model.k_ >= 1

\* what the code has in place of C24: a classifier with k <= 0 exists, fit
\* and score run on it, and a predict call on it returns no label
C24_NoLabelWithoutPositiveK ==
    (/\ model.k_ <= 0
     /\ \/ ret.op = "predict"
        \/ ret.op = "predict_batch" /\ ret.samples # <<>>
        \/ ret.op = "score" /\ size(ret.test_dataset) >= 1)
        => ret.outcome.status = "crashed"

(***************************************************************************)
(* The reads of score.                                                     *)
(***************************************************************************)
\* C25: on a classifier with 1 <= k <= training size, a score call on a
\* non-empty test table, whatever its length, reads no training label at a
\* position at or beyond the training size, and returns.
C25_ScoreReadsInBounds ==
    (/\ ret.op = "score"
     /\ find_k_nearest_defined(model)
     /\ size(ret.test_dataset) >= 1)
        => /\ score_out_of_bounds(model, ret.test_dataset.labels_) = {}
           /\ ret.outcome.status = "returned"

\* the part of C25 the code keeps: the reads are in bounds when the test table
\* is no longer than the training set
C25_ShortTestTable ==
    (/\ ret.op = "score"
     /\ find_k_nearest_defined(model)
     /\ size(ret.test_dataset) >= 1
     /\ size(ret.test_dataset) <= Len(model.y_train_))
        => /\ score_out_of_bounds(model, ret.test_dataset.labels_) = {}
           /\ ret.outcome.status = "returned"

====
